---- MODULE Spec2Model ----
(***************************************************************************)
(* Model of homework_week1.py: a script that loads a trip CSV into a       *)
(* Postgres table in chunks (load_taxi_data), loads a zone lookup CSV      *)
(* wholesale (load_zones_data) and runs four fixed report queries (main).  *)
(*                                                                         *)
(* Rows are identified by the file they come from and their position in    *)
(* it.  A run of consecutive rows of one file is a segment                  *)
(* [src, lo, hi, ts]; a table's content is the sequence of its segments    *)
(* with adjacent runs merged, which is a lossless encoding of the sequence *)
(* of rows and lets the configured chunk size of 100000 rows be kept.      *)
(* ts records whether the two datetime columns hold timestamp values.      *)
(***************************************************************************)
EXTENDS Integers, Sequences, FiniteSets, Bags, TLC

\* ------------------------------------------------------------------ bounds
\* Largest number of full chunks in a trip file.
MaxFull == 2
\* Number of times the script is invoked against the same database.
MaxRuns == 2
\* Largest number of rows in the table query 1 is evaluated on.
MaxRows == 2

\* ------------------------------------------------------- program constants
\* pd.read_csv(file, iterator=True, chunksize=100000)
chunksize == 100000

\* Row counts of the partial chunk that ends a trip file (0: none).
Tails == {0, 50000}
RowCounts == {k * chunksize + d : k \in 0..MaxFull, d \in Tails}

\* The table names the report queries are written against, and one other name.
TripsName == "green_taxi_trips"
ZonesName == "taxi_zone_lookup"
TableNames == {TripsName, ZonesName, "trips_oct"}

\* The contents green_tripdata_2019-10.csv and taxi_zone_lookup.csv may have.
TripFiles == {[src |-> "trips", n |-> n] : n \in RowCounts}
ZoneFiles == {[src |-> "zonesA", n |-> 2], [src |-> "zonesB", n |-> 3]}

\* ------------------------------------------------------------- data frames
Min(a, b) == IF a <= b THEN a ELSE b

\* A data frame holding rows lo..hi of file src.
Frame(src, lo, hi, ts) == [src |-> src, lo |-> lo, hi |-> hi, ts |-> ts]
NRows(f) == f.hi - f.lo + 1

\* Mutant of Head0: the whole frame is written when the table is created.
MutHead0(f) == f

\* df.head(n=0): the frame's columns and no row.
Head0(f) == Frame(f.src, f.lo, f.lo - 1, f.ts)

\* pd.to_datetime on the two datetime columns of a frame.
ToDatetime(f) == Frame(f.src, f.lo, f.hi, TRUE)

NoFrame == Frame("none", 1, 0, FALSE)

\* Mutant of NextChunk: a reader that raises StopIteration on its first call
\* when the file has no data row.
MutNextChunk(csv, pos, nread) ==
  IF pos >= csv.n
    THEN [stop |-> TRUE, df |-> NoFrame]
    ELSE [stop |-> FALSE,
          df |-> Frame(csv.src, pos + 1, Min(pos + chunksize, csv.n), FALSE)]

\* next(df_iter): the reader has consumed pos rows and returned nread chunks.
\* The first call on a file with a header and no data row returns an empty
\* frame; any later call on an exhausted reader raises StopIteration.
NextChunk(csv, pos, nread) ==
  IF pos >= csv.n /\ nread > 0
    THEN [stop |-> TRUE, df |-> NoFrame]
    ELSE [stop |-> FALSE,
          df |-> Frame(csv.src, pos + 1, Min(pos + chunksize, csv.n), FALSE)]

\* pd.read_csv(file) without chunksize: the whole file as one frame.
ReadAll(csv) == Frame(csv.src, 1, csv.n, FALSE)

\* ------------------------------------------------------------------ tables
NoTable == [exists |-> FALSE, rows |-> <<>>]
EmptyTable == [exists |-> TRUE, rows |-> <<>>]

\* rows followed by the rows of frame f, adjacent runs merged.
AppendRows(rows, f) ==
  IF NRows(f) = 0 THEN rows
  ELSE IF rows # <<>> /\ rows[Len(rows)].src = f.src
          /\ rows[Len(rows)].ts = f.ts /\ rows[Len(rows)].hi + 1 = f.lo
    THEN [rows EXCEPT ![Len(rows)].hi = f.hi]
    ELSE Append(rows, f)

RECURSIVE RowCount(_)
RowCount(rows) ==
  IF rows = <<>> THEN 0 ELSE NRows(rows[1]) + RowCount(Tail(rows))

\* Mutant of ToSql: if_exists is ignored and the rows are always appended.
MutToSql(t, f, mode) ==
  [exists |-> TRUE, rows |-> AppendRows(t.rows, f)]

\* DataFrame.to_sql(name, con, if_exists=mode) on a table in state t.
ToSql(t, f, mode) ==
  IF mode = "replace" \/ ~t.exists
    THEN [exists |-> TRUE, rows |-> AppendRows(<<>>, f)]
    ELSE [exists |-> TRUE, rows |-> AppendRows(t.rows, f)]

\* Mutants of the if_exists arguments.
MutCreateMode == "append"
MutFirstMode == "replace"
MutZonesMode == "append"

\* The if_exists argument of each to_sql call.
CreateMode == "replace"
FirstMode == "append"
LoopMode == "append"
ZonesMode == "replace"

\* Mutant of FailedWrite: a failure rolls the whole load back.
MutFailedWrite(t, mode) == {EmptyTable}

\* What a failed to_sql leaves behind.  An append is one INSERT transaction:
\* the table is unchanged.  A replace drops and recreates the table before it
\* inserts: the table is unchanged, dropped, or recreated empty.
FailedWrite(t, mode) ==
  IF mode = "replace" THEN {t, NoTable, EmptyTable} ELSE {t}

\* The rows of a whole file as a table holds them.
FileRows(csv, ts) == AppendRows(<<>>, Frame(csv.src, 1, csv.n, ts))

\* -------------------------------------------------------------------- state
VARIABLES
  db,         \* the database: table name -> table
  args,       \* the parsed command line: table_name and zone
  trips_csv,  \* content of green_tripdata_2019-10.csv
  zones_csv,  \* content of taxi_zone_lookup.csv
  pc,         \* position of the script
  df_iter,    \* the chunk reader: rows consumed and chunks returned
  df,         \* the local data frame (df in load_taxi_data, zones_data)
  writes,     \* the to_sql calls completed by the current load_taxi_data
  out,        \* lines printed by the current run
  err,        \* the exception that ended the run and the step that raised it
  reads,      \* per report query run, the tables it read
  runs,       \* invocations of the script so far
  loads,      \* the last two completed load_taxi_data calls
  zloads,     \* the last two completed load_zones_data calls
  qtable,     \* query 1: the trip table's rows, with their column values
  qresult     \* query 1: the result row, once the query has run

mainvars == <<db, args, trips_csv, zones_csv, pc, df_iter, df, writes, out,
              err, reads, runs, loads, zloads>>
qvars == <<qtable, qresult>>
vars == <<mainvars, qvars>>

NoIter == [pos |-> 0, nread |-> 0]
NoErr == [type |-> "", at |-> ""]
NoResult == [ran |-> FALSE, counts |-> <<0, 0, 0, 0, 0>>]

\* A table left by an earlier, unrelated load.
OldTable == [exists |-> TRUE, rows |-> <<Frame("old", 1, 7, FALSE)>>]
\* The database before the first run: empty, or holding old tables.
PriorDbs == {[t \in TableNames |-> NoTable], [t \in TableNames |-> OldTable]}

\* The command line: --table_name and --zone are required, and free.
Args == [table_name : TableNames, zone : TableNames]

Init ==
  /\ db \in PriorDbs
  /\ args \in Args
  /\ trips_csv \in TripFiles
  /\ zones_csv \in ZoneFiles
  /\ pc = "read_csv"
  /\ df_iter = NoIter
  /\ df = NoFrame
  /\ writes = <<>>
  /\ out = <<"Loading taxi data...">>
  /\ err = NoErr
  /\ reads = <<>>
  /\ runs = 1
  /\ loads = <<>>
  /\ zloads = <<>>
  /\ qtable = EmptyBag
  /\ qresult = NoResult

\* An exception nothing catches: it ends main and the process.
Raise(e) ==
  /\ pc' = "error"
  /\ err' = [type |-> e, at |-> pc]

\* main: load_taxi_data(engine, 'green_tripdata_2019-10.csv', taxi_table_name)
TaxiTarget == args.table_name

\* Mutant of ZonesTarget: the zones are written to the trip table.
MutZonesTarget == args.table_name

\* main: load_zones_data(engine, 'taxi_zone_lookup.csv', zone_table_name)
ZonesTarget == args.zone

\* One completed to_sql call of load_taxi_data.
Write(mode, f) == [mode |-> mode, table |-> TaxiTarget, lo |-> f.lo, hi |-> f.hi]

LastTwo(s) == IF Len(s) > 2 THEN Tail(s) ELSE s

\* ---------------------------------------------------------- load_taxi_data
\* df_iter = pd.read_csv(file, iterator=True, chunksize=100000)
ReadCsv ==
  /\ pc = "read_csv"
  /\ \E ok \in BOOLEAN :
       IF ok
         THEN /\ pc' = "first_next"
              /\ err' = err
         ELSE Raise("ReadError")
  /\ df_iter' = NoIter
  /\ UNCHANGED <<db, args, trips_csv, zones_csv, df, writes, out, reads, runs,
                 loads, zloads, qvars>>

\* df = next(df_iter), outside any try block.
FirstNext ==
  /\ pc = "first_next"
  /\ \E ok \in BOOLEAN :
       LET r == NextChunk(trips_csv, df_iter.pos, df_iter.nread) IN
       IF ~ok
         THEN Raise("ParserError") /\ UNCHANGED <<df, df_iter>>
       ELSE IF r.stop
         THEN Raise("StopIteration") /\ UNCHANGED <<df, df_iter>>
       ELSE /\ df' = r.df
            /\ df_iter' = [pos |-> r.df.hi, nread |-> df_iter.nread + 1]
            /\ pc' = "first_convert"
            /\ err' = err
  /\ UNCHANGED <<db, args, trips_csv, zones_csv, writes, out, reads, runs,
                 loads, zloads, qvars>>

\* The two pd.to_datetime assignments on the first chunk.
FirstConvert ==
  /\ pc = "first_convert"
  /\ \E ok \in BOOLEAN :
       IF ok
         THEN /\ df' = ToDatetime(df)
              /\ pc' = "create"
              /\ err' = err
         ELSE Raise("ValueError") /\ df' = df
  /\ UNCHANGED <<db, args, trips_csv, zones_csv, df_iter, writes, out, reads,
                 runs, loads, zloads, qvars>>

\* A to_sql call of load_taxi_data on the --table_name table: on success the
\* table changes and the call is logged, on failure the error propagates.
TaxiToSql(f, mode, next) ==
  LET name == TaxiTarget IN
  \E ok \in BOOLEAN :
    IF ok
      THEN /\ db' = [db EXCEPT ![name] = ToSql(db[name], f, mode)]
           /\ writes' = Append(writes, Write(mode, f))
           /\ pc' = next
           /\ err' = err
      ELSE /\ \E t \in FailedWrite(db[name], mode) :
                db' = [db EXCEPT ![name] = t]
           /\ writes' = writes
           /\ Raise("DatabaseError")

\* df.head(n=0).to_sql(name=table_name, con=engine, if_exists='replace')
CreateTable ==
  /\ pc = "create"
  /\ TaxiToSql(Head0(df), CreateMode, "first_append")
  /\ UNCHANGED <<args, trips_csv, zones_csv, df_iter, df, out, reads, runs,
                 loads, zloads, qvars>>

\* df.to_sql(name=table_name, con=engine, if_exists='append'), first chunk
FirstAppend ==
  /\ pc = "first_append"
  /\ TaxiToSql(df, FirstMode, "loop_next")
  /\ UNCHANGED <<args, trips_csv, zones_csv, df_iter, df, out, reads, runs,
                 loads, zloads, qvars>>

\* while True: try: df = next(df_iter)
LoopNext ==
  /\ pc = "loop_next"
  /\ \E ok \in BOOLEAN :
       LET r == NextChunk(trips_csv, df_iter.pos, df_iter.nread) IN
       IF ~ok
         THEN Raise("ParserError") /\ UNCHANGED <<df, df_iter>>
       ELSE IF r.stop
         THEN /\ pc' = "except"
              /\ err' = err
              /\ UNCHANGED <<df, df_iter>>
       ELSE /\ df' = r.df
            /\ df_iter' = [pos |-> r.df.hi, nread |-> df_iter.nread + 1]
            /\ pc' = "loop_convert"
            /\ err' = err
  /\ UNCHANGED <<db, args, trips_csv, zones_csv, writes, out, reads, runs,
                 loads, zloads, qvars>>

\* The two pd.to_datetime assignments inside the loop.
LoopConvert ==
  /\ pc = "loop_convert"
  /\ \E ok \in BOOLEAN :
       IF ok
         THEN /\ df' = ToDatetime(df)
              /\ pc' = "loop_append"
              /\ err' = err
         ELSE Raise("ValueError") /\ df' = df
  /\ UNCHANGED <<db, args, trips_csv, zones_csv, df_iter, writes, out, reads,
                 runs, loads, zloads, qvars>>

\* df.to_sql(..., if_exists='append') inside the loop, then the progress line.
LoopAppend ==
  /\ pc = "loop_append"
  /\ TaxiToSql(df, LoopMode, "loop_next")
  /\ out' = IF pc' = "loop_next"
              THEN Append(out, "inserted another chunk") ELSE out
  /\ UNCHANGED <<args, trips_csv, zones_csv, df_iter, df, reads, runs, loads,
                 zloads,
                 qvars>>

\* except StopIteration: print the finished line, break, return to main.
Finish ==
  /\ pc = "except"
  /\ out' = out \o <<"Finished ingesting data into the postgres database",
                     "Loading zones data...">>
  /\ loads' = LastTwo(Append(loads, [table |-> TaxiTarget,
                                     csv |-> trips_csv,
                                     rows |-> db[TaxiTarget].rows]))
  /\ pc' = "zones_read"
  /\ UNCHANGED <<db, args, trips_csv, zones_csv, df_iter, df, writes, err,
                 reads, runs, zloads, qvars>>

\* --------------------------------------------------------- load_zones_data
\* zones_data = pd.read_csv(file)
ZonesRead ==
  /\ pc = "zones_read"
  /\ \E ok \in BOOLEAN :
       IF ok
         THEN /\ df' = ReadAll(zones_csv)
              /\ pc' = "zones_write"
              /\ err' = err
         ELSE Raise("ReadError") /\ df' = df
  /\ UNCHANGED <<db, args, trips_csv, zones_csv, df_iter, writes, out, reads,
                 runs, loads, zloads, qvars>>

\* zones_data.to_sql(table_name, engine, if_exists='replace', index=False)
ZonesWrite ==
  /\ pc = "zones_write"
  /\ LET name == ZonesTarget IN
     \E ok \in BOOLEAN :
       IF ok
         THEN /\ db' = [db EXCEPT ![name] = ToSql(db[name], df, ZonesMode)]
              /\ out' = Append(out, "Finished loading zones data")
              /\ zloads' = LastTwo(Append(zloads, [table |-> name,
                                                   csv |-> zones_csv]))
              /\ pc' = "q1"
              /\ err' = err
         ELSE /\ \E t \in FailedWrite(db[name], ZonesMode) :
                   db' = [db EXCEPT ![name] = t]
              /\ out' = out
              /\ zloads' = zloads
              /\ Raise("DatabaseError")
  /\ UNCHANGED <<args, trips_csv, zones_csv, df_iter, df, writes, reads, runs,
                 loads, qvars>>

\* ---------------------------------------------------------- report queries
\* The tables named in the FROM and JOIN clauses of report query k.
QueryTables(k) ==
  IF k \in {1, 2} THEN {TripsName} ELSE {TripsName, ZonesName}

QueryPc(k) == <<"q1", "q2", "q3", "q4", "done">>[k]

\* print(query_k(engine)): pd.read_sql of a fixed SELECT; it changes no table
\* and fails when a table it names does not exist.
RunQuery(k) ==
  /\ pc = QueryPc(k)
  /\ \E ok \in BOOLEAN :
       IF ok /\ \A t \in QueryTables(k) : db[t].exists
         THEN /\ reads' = Append(reads, QueryTables(k))
              /\ out' = Append(out, "query result")
              /\ pc' = QueryPc(k + 1)
              /\ err' = err
         ELSE /\ Raise("DatabaseError")
              /\ UNCHANGED <<reads, out>>
  /\ UNCHANGED <<db, args, trips_csv, zones_csv, df_iter, df, writes, runs,
                 loads, zloads, qvars>>

\* ------------------------------------------------------------------ script
\* The script is invoked again with the same command line, on the database
\* the last run left; the two CSV files may have been replaced meanwhile.
Rerun ==
  /\ pc \in {"done", "error"}
  /\ runs < MaxRuns
  /\ runs' = runs + 1
  /\ args' = args
  /\ trips_csv' \in TripFiles
  /\ zones_csv' \in ZoneFiles
  /\ pc' = "read_csv"
  /\ df_iter' = NoIter
  /\ df' = NoFrame
  /\ writes' = <<>>
  /\ out' = <<"Loading taxi data...">>
  /\ err' = NoErr
  /\ reads' = <<>>
  /\ UNCHANGED <<db, loads, zloads, qvars>>

\* One invocation of the script: main from its first statement to its last.
Run ==
  \/ ReadCsv
  \/ FirstNext
  \/ FirstConvert
  \/ CreateTable
  \/ FirstAppend
  \/ LoopNext
  \/ LoopConvert
  \/ LoopAppend
  \/ Finish
  \/ ZonesRead
  \/ ZonesWrite
  \/ \E k \in 1..4 : RunQuery(k)

Next ==
  \/ Run
  \/ Rerun

Spec == Init /\ [][Next]_vars

\* One invocation under fairness: the script's statements are sequential and
\* blocking, so a statement that can run does run.
FairSpec == Init /\ [][Run]_vars /\ WF_vars(Run)

\* ------------------------------------------- query_1_trip_distance_ranges
\* SQL values: a number or NULL.  A missing CSV field is read as NaN/NaT and
\* stored as NULL.
Val(v) == [null |-> FALSE, v |-> v]
Null == [null |-> TRUE, v |-> 0]

\* SQL's three-valued logic: "T", "F" and "U" (unknown).
Cmp(b) == IF b THEN "T" ELSE "F"
Leq(a, b) == IF a.null \/ b.null THEN "U" ELSE Cmp(a.v <= b.v)
Gt(a, b) == IF a.null \/ b.null THEN "U" ELSE Cmp(a.v > b.v)
Geq(a, b) == IF a.null \/ b.null THEN "U" ELSE Cmp(a.v >= b.v)
Lt(a, b) == IF a.null \/ b.null THEN "U" ELSE Cmp(a.v < b.v)
And3(x, y) ==
  IF x = "F" \/ y = "F" THEN "F"
  ELSE IF x = "T" /\ y = "T" THEN "T" ELSE "U"

\* The literals '2019-10-01' and '2019-11-01' of the WHERE clause, midnight of
\* the day, as YYYYMMDD; timestamps are modelled by their day.
MonthStart == 20191001
MonthEnd == 20191101

\* Mutant of Bucket: the second range excludes its upper limit.
MutBucket(i, d) ==
  CASE i = 1 -> Leq(d, Val(1))
    [] i = 2 -> And3(Gt(d, Val(1)), Lt(d, Val(3)))
    [] i = 3 -> And3(Gt(d, Val(3)), Leq(d, Val(7)))
    [] i = 4 -> And3(Gt(d, Val(7)), Leq(d, Val(10)))
    [] i = 5 -> Gt(d, Val(10))

\* The WHEN condition of the i-th COUNT(CASE WHEN ... THEN 1 END), on a
\* trip_distance d in miles.
Bucket(i, d) ==
  CASE i = 1 -> Leq(d, Val(1))
    [] i = 2 -> And3(Gt(d, Val(1)), Leq(d, Val(3)))
    [] i = 3 -> And3(Gt(d, Val(3)), Leq(d, Val(7)))
    [] i = 4 -> And3(Gt(d, Val(7)), Leq(d, Val(10)))
    [] i = 5 -> Gt(d, Val(10))

\* WHERE lpep_pickup_datetime >= '2019-10-01'
\*   AND lpep_dropoff_datetime < '2019-11-01'
Where(r) ==
  And3(Geq(r.pickup, Val(MonthStart)), Lt(r.dropoff, Val(MonthEnd)))

\* The number of rows of bag t, with their multiplicities, in the set S.
RECURSIVE Copies(_, _)
Copies(t, S) ==
  IF S = {} THEN 0
  ELSE LET r == CHOOSE x \in S : TRUE
       IN CopiesIn(r, t) + Copies(t, S \ {r})

\* The result row of query 1 on trip table t: a row is kept when the WHERE
\* condition is true, and COUNT counts the rows whose CASE is not NULL.
Query1(t) ==
  LET kept == {r \in BagToSet(t) : Where(r) = "T"} IN
  [ran |-> TRUE,
   counts |-> [i \in 1..5 |->
                 Copies(t, {r \in kept : Bucket(i, r.trip_distance) = "T"})]]

\* Trip distances at, between and beyond the bucket limits, and a missing one.
Distances == {Null} \cup {Val(v) : v \in {0, 1, 2, 3, 5, 7, 8, 10, 11}}
\* Pickup and dropoff days before, at and after the limits of the month.
Stamps == {<<Val(20190930), Val(20191001)>>, <<Val(20191001), Val(20191001)>>,
           <<Val(20191031), Val(20191101)>>, <<Val(20191031), Val(20191031)>>,
           <<Null, Val(20191031)>>}
TripRows == {[trip_distance |-> d, pickup |-> s[1], dropoff |-> s[2]] :
               d \in Distances, s \in Stamps}

InitQ ==
  /\ db = [t \in TableNames |-> NoTable]
  /\ args = [table_name |-> TripsName, zone |-> ZonesName]
  /\ trips_csv = [src |-> "trips", n |-> 0]
  /\ zones_csv = [src |-> "zonesA", n |-> 2]
  /\ pc = "q1"
  /\ df_iter = NoIter
  /\ df = NoFrame
  /\ writes = <<>>
  /\ out = <<>>
  /\ err = NoErr
  /\ reads = <<>>
  /\ runs = 1
  /\ loads = <<>>
  /\ zloads = <<>>
  /\ qtable = EmptyBag
  /\ qresult = NoResult

\* A row reaches green_taxi_trips (an appended chunk, row by row).
InsertRow(r) ==
  /\ ~qresult.ran
  /\ BagCardinality(qtable) < MaxRows
  /\ qtable' = qtable (+) SetToBag({r})
  /\ UNCHANGED <<qresult, mainvars>>

\* pd.read_sql(query, engine) of query 1.
RunQuery1 ==
  /\ ~qresult.ran
  /\ qresult' = Query1(qtable)
  /\ UNCHANGED <<qtable, mainvars>>

NextQ ==
  \/ \E r \in TripRows : InsertRow(r)
  \/ RunQuery1

SpecQ == InitQ /\ [][NextQ]_vars

\* ------------------------------------------------------------- properties
CeilDiv(a, b) == (a + b - 1) \div b

\* The number of chunks the reader returns for a file of n rows.
NumChunks(n) == IF n = 0 THEN 1 ELSE CeilDiv(n, chunksize)

\* The append calls in a log of to_sql calls.
Appends(w) == Cardinality({i \in DOMAIN w : w[i].mode = "append"})

RECURSIVE RowsWritten(_)
RowsWritten(w) ==
  IF w = <<>> THEN 0 ELSE (w[1].hi - w[1].lo + 1) + RowsWritten(Tail(w))

Range(q) == {q[i] : i \in DOMAIN q}
FinishedLine == "Finished ingesting data into the postgres database"

\* load_taxi_data has just returned to main.
TaxiLoaded == pc = "zones_read"
TaxiSteps == {"read_csv", "first_next", "first_convert", "create",
              "first_append", "loop_next", "loop_convert", "loop_append",
              "except"}
\* From the return of load_taxi_data to the end of main.
AfterTaxiSteps == {"zones_read", "zones_write", "q1", "q2", "q3", "q4", "done"}
\* From the return of load_zones_data to the end of main.
ReportSteps == {"q1", "q2", "q3", "q4", "done"}
At(steps) == pc \in steps \/ (pc = "error" /\ err.at \in steps)

TripTable == db[args.table_name]
ZoneTable == db[args.zone]

\* C1: when load_taxi_data returns, whatever the row count N of the CSV (0
\* included, smaller than a chunk included) and whatever the table held or
\* did not hold before, the target table holds exactly the N rows of the CSV.
C1_TableHoldsExactlyNRows ==
  TaxiLoaded =>
    /\ TripTable.exists
    /\ TripTable.rows = FileRows(trips_csv, TRUE)
    /\ RowCount(TripTable.rows) = trips_csv.n

\* C1 witness: a header-only CSV has been loaded over a table that held the
\* rows of an earlier, larger load.
C1_HeaderOnlyOverLoadedTable ==
  /\ TaxiLoaded
  /\ trips_csv.n = 0
  /\ Len(loads) = 2
  /\ loads[1].table = args.table_name
  /\ loads[1].csv.n > chunksize
  /\ args.zone # args.table_name
  /\ TripTable.rows = <<>>

\* C2 as stated, for files with at least one row: the number of write
\* operations equals ceil(N/C), 3 for N = 250000.
C2_WritesEqualChunks ==
  (TaxiLoaded /\ trips_csv.n >= 1) =>
    /\ Len(writes) = CeilDiv(trips_csv.n, chunksize)
    /\ (trips_csv.n = 250000 =>
          Len(writes) = 3 /\ RowCount(TripTable.rows) = 250000)

\* C2 amended: the append operations are one per chunk read, ceil(N/C) for
\* N >= 1 and one empty chunk for N = 0; one more write precedes them, the
\* replace that creates the table and carries no row.  For N = 250000 that is
\* 3 appends (100000, 100000 and 50000 rows) in 4 writes, and 250000 rows.
C2_AppendsEqualChunks ==
  TaxiLoaded =>
    /\ Appends(writes) = NumChunks(trips_csv.n)
    /\ Appends(writes) = df_iter.nread
    /\ Len(writes) = NumChunks(trips_csv.n) + 1
    /\ writes[1].mode = "replace"
    /\ writes[1].hi - writes[1].lo + 1 = 0
    /\ RowsWritten(writes) = trips_csv.n
    /\ (trips_csv.n = 250000 =>
          /\ Len(writes) = 4
          /\ [i \in 2..4 |-> writes[i].hi - writes[i].lo + 1]
               = [i \in 2..4 |-> IF i = 4 THEN 50000 ELSE 100000]
          /\ RowCount(TripTable.rows) = 250000)

\* C2 witness: the 250000-row file has been loaded.
C2_Loaded250000 ==
  TaxiLoaded /\ trips_csv.n = 250000 /\ Len(writes) = 4

\* C3: from the return of load_zones_data on, the zone table holds exactly
\* the rows of the CSV given to that (the last) call, whatever earlier calls
\* loaded.
C3_ZonesTableIsLastCsv ==
  pc \in ReportSteps =>
    /\ ZoneTable = [exists |-> TRUE, rows |-> FileRows(zones_csv, FALSE)]
    /\ zloads[Len(zloads)] = [table |-> args.zone, csv |-> zones_csv]

\* C3 witness: the zone table has been loaded twice, with different CSVs.
C3_ReloadedWithOtherContent ==
  /\ pc = "q1"
  /\ Len(zloads) = 2
  /\ zloads[1].table = zloads[2].table
  /\ zloads[1].csv # zloads[2].csv
  /\ args.zone # args.table_name
  /\ ZoneTable.rows = FileRows(zones_csv, FALSE)

\* Two completed runs of load_taxi_data, the last one just returned, on the
\* same CSV and the same table.
SameLoadTwice ==
  /\ TaxiLoaded
  /\ Len(loads) = 2
  /\ loads[1].table = loads[2].table
  /\ loads[1].csv = loads[2].csv

\* C4 as stated, for a file with at least one row and a trip table the zone
\* load does not touch: the second run duplicates every row, the table holds
\* 2N rows, more than N.
C4_SecondRunDuplicates ==
  (SameLoadTwice /\ trips_csv.n > 0 /\ args.zone # args.table_name) =>
    /\ RowCount(TripTable.rows) = 2 * trips_csv.n
    /\ RowCount(TripTable.rows) > trips_csv.n

\* C4 amended: the second run replaces the table before it appends, so after
\* two complete runs over an N-row file the table holds the same N rows as
\* after the first.
C4_SecondRunReplaces ==
  SameLoadTwice =>
    /\ RowCount(TripTable.rows) = trips_csv.n
    /\ TripTable.rows = loads[1].rows
    /\ loads[2].rows = loads[1].rows

\* C4 witness: the 250000-row file has been loaded a second time into the
\* table that still held its rows.
C4_SecondRunSameCsv ==
  /\ SameLoadTwice
  /\ trips_csv.n = 250000
  /\ args.zone # args.table_name
  /\ RowCount(TripTable.rows) = 250000

\* C5 as stated: every report query reads the trip table named by
\* --table_name, and queries 3 and 4 also the zone table named by --zone.
C5_QueriesReadLoadedTables ==
  \A k \in DOMAIN reads :
    reads[k] = IF k \in {1, 2} THEN {args.table_name}
                               ELSE {args.table_name, args.zone}

\* The rows of trip table t that pass the date filter of query 1.
InMonth(t) == {r \in BagToSet(t) : Where(r) = "T"}
Sum5(c) == c[1] + c[2] + c[3] + c[4] + c[5]

\* C6 as stated: the five counts sum to the number of rows that pass the
\* date filter.
C6_CountsSumToRowsInMonth ==
  qresult.ran => Sum5(qresult.counts) = Copies(qtable, InMonth(qtable))

\* C6 amended: the five counts sum to the number of rows that pass the date
\* filter and have a trip_distance; each such row is counted in exactly one
\* bucket, and a row whose trip_distance is NULL in none.
C6_CountsSumToRowsInMonthWithDistance ==
  qresult.ran =>
    /\ Sum5(qresult.counts)
         = Copies(qtable, {r \in InMonth(qtable) : ~r.trip_distance.null})
    /\ \A r \in InMonth(qtable) :
         Cardinality({i \in 1..5 : Bucket(i, r.trip_distance) = "T"})
           = IF r.trip_distance.null THEN 0 ELSE 1

\* C6 witness: the query has run on two rows of the month, at the upper
\* limits of the second and the third range.
C6_QueryOnRangeLimits ==
  /\ qresult.ran
  /\ BagCardinality(qtable) = 2
  /\ \E r \in BagToSet(qtable) : r.trip_distance = Val(3)
  /\ \E r \in BagToSet(qtable) : r.trip_distance = Val(7)
  /\ qresult.counts = <<0, 1, 1, 0, 0>>

\* C7: when the append of chunk k fails, the error propagates (the run ends
\* with it, the finished line is not printed, main goes no further), chunk k
\* is the last chunk read, the k-1 earlier appends stand and the table holds
\* the rows of chunks 1..k-1 and no other.
C7_FailedChunkWriteLeavesPartialLoad ==
  (pc = "error" /\ err.at \in {"first_append", "loop_append"}) =>
    LET k == df_iter.nread IN
    /\ err.type = "DatabaseError"
    /\ df_iter.pos = df.hi
    /\ Appends(writes) = k - 1
    /\ TripTable.exists
    /\ TripTable.rows = AppendRows(<<>>, Frame(trips_csv.src, 1, df.lo - 1, TRUE))
    /\ RowCount(TripTable.rows) = (k - 1) * chunksize
    /\ FinishedLine \notin Range(out)
    /\ reads = <<>>

\* C7 witness: the append of the third chunk has failed after two chunks
\* were written.
C7_ThirdChunkWriteFailed ==
  /\ pc = "error"
  /\ err.at = "loop_append"
  /\ df_iter.nread = 3
  /\ RowCount(TripTable.rows) = 2 * chunksize

\* C8: once the reader is exhausted the load prints the finished line and
\* returns without an error; StopIteration never ends the run; a failure in
\* load_taxi_data ends the run without the finished line and without main
\* going on.
C8_ExhaustionEndsLoadNormally ==
  /\ (pc = "except") ~> (TaxiLoaded /\ err = NoErr /\ FinishedLine \in Range(out))
  /\ [](err.type # "StopIteration")
  /\ []((pc = "error" /\ err.at \in TaxiSteps) =>
          (FinishedLine \notin Range(out) /\ reads = <<>>))

\* C8 witness: the load of a header-only file has returned normally after
\* the reader was exhausted on its second call.
C8_ReturnedAfterEmptyChunk ==
  /\ TaxiLoaded
  /\ trips_csv.n = 0
  /\ df_iter.nread = 1
  /\ err = NoErr
  /\ FinishedLine \in Range(out)

\* C9: in a run over a file with at least one row, the first write is the
\* one replace and carries no row, the i-th write after it is the append of
\* chunk i, in source order and once each, at most one chunk is read and not
\* yet written, the table holds the chunks appended so far, and at the return
\* every chunk has been written.
C9_ReplaceOnceThenAppendsInOrder ==
  (trips_csv.n >= 1 /\ pc \in TaxiSteps \cup {"zones_read"}) =>
    /\ \A i \in DOMAIN writes :
         /\ writes[i].table = args.table_name
         /\ i = 1 => writes[i].mode = "replace" /\ writes[i].hi < writes[i].lo
         /\ i > 1 => /\ writes[i].mode = "append"
                     /\ writes[i].lo = (i - 2) * chunksize + 1
                     /\ writes[i].hi = Min((i - 1) * chunksize, trips_csv.n)
    /\ df_iter.nread - Appends(writes) \in {0, 1}
    /\ writes # <<>> =>
         TripTable.rows
           = AppendRows(<<>>, Frame(trips_csv.src, 1, writes[Len(writes)].hi, TRUE))
    /\ TaxiLoaded => Appends(writes) = CeilDiv(trips_csv.n, chunksize)

\* C9 witness: a file of one full and one partial chunk has been loaded.
C9_TwoChunksLoaded ==
  /\ TaxiLoaded
  /\ trips_csv.n = chunksize + 50000
  /\ Len(writes) = 3

\* C10 as stated: for every pair of names, from the return of load_taxi_data
\* to the end of main the trip table holds the rows load_taxi_data wrote.
C10_TripTableKeptForEveryNames ==
  At(AfterTaxiSteps) => TripTable.rows = FileRows(trips_csv, TRUE)

\* C10 amended: for every pair of different --table_name and --zone names,
\* from the return of load_taxi_data to the end of main the trip table holds
\* the rows load_taxi_data wrote, and from the return of load_zones_data on
\* the zone table holds the rows of the zone CSV: the queries change neither.
C10_TripTableKeptForDistinctNames ==
  args.table_name # args.zone =>
    /\ At(AfterTaxiSteps) =>
         TripTable = [exists |-> TRUE, rows |-> FileRows(trips_csv, TRUE)]
    /\ At(ReportSteps) =>
         ZoneTable = [exists |-> TRUE, rows |-> FileRows(zones_csv, FALSE)]

\* C10 witness: main has finished its four queries with the trip rows and
\* the zone rows in two different tables.
C10_ReportsDoneOnTwoTables ==
  /\ pc = "done"
  /\ Len(reads) = 4
  /\ args.table_name # args.zone
  /\ trips_csv.n = 50000
  /\ TripTable.rows = FileRows(trips_csv, TRUE)
  /\ ZoneTable.rows = FileRows(zones_csv, FALSE)

====
